---- MODULE Spec2Model ----
(***************************************************************************)
(* Model of the hospital-access pipeline of src/src/estimation.py:         *)
(* load_all_data and the stages it sequences.  Tables are records          *)
(* [ok, cols, rows]: ok = FALSE is Python's None, cols the column names,   *)
(* rows the sequence of row records in table order.  Every row carries     *)
(* idx, its pandas index label.  Coordinates are in tenths of a degree.    *)
(***************************************************************************)
EXTENDS Integers, Sequences, FiniteSets, TLC

(* ---------------------------- bounds ----------------------------------- *)
MaxRows == 3        \* raw facility rows in IPRESS.csv
MaxDistricts == 2   \* polygon rows in DISTRITOS.shp
MaxCenters == 2     \* point rows in CCPP_0.zip

(* ------------------------- cell values --------------------------------- *)
\* a missing numeric cell (NaN), as dropna / fillna see it
NaN == -9999
\* a missing text cell
NA == "<NA>"

\* bounds of the coordinate filter, tenths of a degree
NORTE_MIN == -185
NORTE_MAX == 0
ESTE_MIN == -815
ESTE_MAX == -680

between(x, lo, hi) == x # NaN /\ lo <= x /\ x <= hi

\* pd.to_numeric(errors='coerce') followed by astype(int) on the text of an
\* administrative code: digits parse, anything else becomes NaN
UbigeoDigits == <<"1", "2", "3">>
to_numeric(s) ==
    IF \E i \in 1..Len(UbigeoDigits) : UbigeoDigits[i] = s
    THEN CHOOSE i \in 1..Len(UbigeoDigits) : UbigeoDigits[i] = s
    ELSE NaN

None == [ok |-> FALSE, cols |-> {}, rows |-> <<>>]
\* an empty frame handed back as None
Table_nonempty(c, r) ==
    IF r = <<>> THEN [ok |-> FALSE, cols |-> {}, rows |-> <<>>]
    ELSE [ok |-> TRUE, cols |-> c, rows |-> r]
Table(c, r) == [ok |-> TRUE, cols |-> c, rows |-> r]

Range(s) == {s[i] : i \in 1..Len(s)}

RECURSIVE SumSeq(_)
SumSeq(s) == IF s = <<>> THEN 0 ELSE Head(s) + SumSeq(Tail(s))

(* ----------------------- load_and_clean_hospitals ---------------------- *)
\* only the two status columns required
required_columns_status == {"Estado", "Condicion"}
required_columns == {"Estado", "Condicion", "NORTE", "ESTE"}

encodings_to_try(charenc) == <<charenc, "utf-8", "latin1", "cp1252">>

\* chardet.detect on the first 10000 bytes: an exception gives 'utf-8'; a
\* result of None is kept and handed to read_csv as it is
detect(file) == IF file.detected = "<raises>" THEN "utf-8" ELSE file.detected

\* pd.read_csv(path, encoding=None) decodes as utf-8
codec(encoding) == IF encoding = "<None>" THEN "utf-8" ELSE encoding

\* header names that hold an accented letter
Accented == {"Condicion", "Codigo Unico"}
\* a name as it comes out of a codec that maps the bytes to other characters
garbled(col) == IF col \in Accented THEN "<garbled>" ELSE col

\* pd.read_csv(path, encoding=encoding) when it does not raise
parse(file, encoding) ==
    Table(IF codec(encoding) \in file.garbles
          THEN {garbled(c) : c \in file.cols} ELSE file.cols,
          file.rows)

\* positions of encodings_to_try at which read_csv does not raise
parsing(file) ==
    LET encs == encodings_to_try(detect(file))
    IN {i \in 1..Len(encs) : codec(encs[i]) \in file.parses}

\* the encodings handed to read_csv by the loop, in order: up to the `break`
attempts(file) ==
    LET encs == encodings_to_try(detect(file))
        good == parsing(file)
    IN IF good = {} THEN encs
       ELSE SubSeq(encs, 1, CHOOSE i \in good : \A j \in good : i <= j)

\* the loop without its `break`: the last encoding that parses wins
read_csv_last(file) ==
    LET encs == encodings_to_try(detect(file))
        good == parsing(file)
    IN IF good = {} THEN None
       ELSE parse(file, encs[CHOOSE i \in good : \A j \in good : i >= j])

\* the for/try/break loop over the encodings: the first one that parses
read_csv(file) ==
    LET tried == attempts(file)
    IN IF parsing(file) = {} THEN None
       ELSE parse(file, tried[Len(tried)])

\* the filter on the status alone
status_filter_estado(r) == r.Estado = "ACTIVADO"
status_filter(r) == r.Estado = "ACTIVADO" /\ r.Condicion = "EN FUNCIONAMIENTO"
dropna_coords(r) == r.NORTE # NaN /\ r.ESTE # NaN
coordinate_filter(r) ==
    between(r.NORTE, NORTE_MIN, NORTE_MAX) /\ between(r.ESTE, ESTE_MIN, ESTE_MAX)

columnas_seleccionar(col) ==
    CASE col = "Codigo Unico" -> "CODIGO_IPRESS"
      [] col = "Nombre del establecimiento" -> "NOMBRE"
      [] col = "UBIGEO" -> "UBIGEO"
      [] col = "NORTE" -> "LONGITUD"
      [] col = "ESTE" -> "LATITUD"
      [] col = "Departamento" -> "DEPARTAMENTO"
      [] col = "Estado" -> "ESTADO"
      [] OTHER -> "<dropped>"

\* select + rename of one filtered row into the canonical schema; a column
\* the file does not have leaves its canonical field missing
rename_row(r, cols) ==
    [idx |-> r.idx,
     UBIGEO |-> IF "UBIGEO" \in cols THEN to_numeric(r.UBIGEO) ELSE NaN,
     LONGITUD |-> r.NORTE,
     LATITUD |-> r.ESTE,
     DEPARTAMENTO |-> IF "Departamento" \in cols THEN r.Departamento ELSE NA,
     ESTADO |-> r.Estado]

load_and_clean_hospitals(file) ==
    IF ~file.exists THEN None
    ELSE LET df == read_csv(file)
         IN IF ~df.ok THEN None
            ELSE IF ~(required_columns \subseteq df.cols) THEN None
            ELSE LET f1 == SelectSeq(df.rows, status_filter)
                     f2 == SelectSeq(f1, dropna_coords)
                     f3 == SelectSeq(f2, coordinate_filter)
                     available == {c \in df.cols : columnas_seleccionar(c) # "<dropped>"}
                     final == [i \in 1..Len(f3) |-> rename_row(f3[i], df.cols)]
                     coerced(r) == r.UBIGEO # NaN
                 IN Table({columnas_seleccionar(c) : c \in available},
                          IF "UBIGEO" \in df.cols
                          THEN SelectSeq(final, coerced) ELSE final)

(* ---------------------- load_and_process_shapefile ---------------------- *)
\* geometry.buffer(0) repairs an invalid polygon
buffer0(g) == [g EXCEPT !.valid = TRUE]

shapefile_row(r) ==
    [idx |-> r.idx, UBIGEO |-> to_numeric(r.code), DISTRITO |-> r.DISTRITO,
     geometry |-> r.geometry]

\* the reprojection to EPSG:4326 leaves codes, names and validity as they are
load_and_process_shapefile(file) ==
    IF ~file.exists THEN None
    ELSE IF ~file.readable THEN None
    ELSE IF Len(file.rows) = 0 THEN None
    ELSE IF file.idcol \notin {"IDDIST", "UBIGEO"} THEN None
    ELSE IF ~file.hasDistrito THEN None
    ELSE LET sel == [i \in 1..Len(file.rows) |-> shapefile_row(file.rows[i])]
             coerced(r) == r.UBIGEO # NaN
             kept == SelectSeq(sel, coerced)
             all_valid == \A i \in 1..Len(kept) : kept[i].geometry.valid
             fixed == IF all_valid THEN kept
                      ELSE [i \in 1..Len(kept) |->
                              [kept[i] EXCEPT !.geometry = buffer0(@)]]
         IN Table({"UBIGEO", "DISTRITO", "geometry"}, fixed)

(* -------------------- merge_hospitals_with_shapefile ------------------- *)
RECURSIVE Flatten(_)
Flatten(ss) == IF ss = <<>> THEN <<>> ELSE Head(ss) \o Flatten(Tail(ss))

\* a fresh RangeIndex 0..n-1 on the rows of a merge result
reset_index(rows) == [i \in 1..Len(rows) |-> [rows[i] EXCEPT !.idx = i - 1]]

joined_row(m, h) ==
    [idx |-> 0, UBIGEO |-> m.UBIGEO, DISTRITO |-> m.DISTRITO,
     geometry |-> m.geometry, maps_idx |-> m.idx, hospitals_idx |-> h.idx,
     LONGITUD |-> h.LONGITUD, LATITUD |-> h.LATITUD,
     DEPARTAMENTO |-> h.DEPARTAMENTO, ESTADO |-> h.ESTADO]

\* a cross join: every district row paired with every facility row
inner_merge_cross(left, right) ==
    LET matches(m) == [j \in 1..Len(right) |-> joined_row(m, right[j])]
    IN reset_index(Flatten([i \in 1..Len(left) |-> matches(left[i])]))

\* pd.merge(maps_gdf, hospitals_df, how="inner", on="UBIGEO"): every pair of
\* a left row and a right row with the same key, in left order then right
inner_merge(left, right) ==
    LET matches(m) ==
          LET same(h) == h.UBIGEO = m.UBIGEO
              hs == SelectSeq(right, same)
          IN [j \in 1..Len(hs) |-> joined_row(m, hs[j])]
    IN reset_index(Flatten([i \in 1..Len(left) |-> matches(left[i])]))

merge_hospitals_with_shapefile(hospitals_df, maps_gdf) ==
    IF ~hospitals_df.ok \/ ~maps_gdf.ok THEN None
    ELSE IF "UBIGEO" \notin hospitals_df.cols \/ "UBIGEO" \notin maps_gdf.cols
    THEN None
    ELSE LET dataset == inner_merge(maps_gdf.rows, hospitals_df.rows)
         IN IF Len(dataset) = 0 THEN None
            ELSE Table(maps_gdf.cols \cup hospitals_df.cols, dataset)

(* ----------------------- calculate_hospital_counts --------------------- *)
\* the keys of a groupby in ascending order (integer keys)
RECURSIVE SortedKeys(_)
SortedKeys(S) ==
    IF S = {} THEN <<>>
    ELSE LET k == CHOOSE x \in S : \A y \in S : x <= y
         IN <<k>> \o SortedKeys(S \ {k})

\* dataset_cv.groupby('UBIGEO').size().reset_index(name='num_hospitales')
groupby_ubigeo_size(rows) ==
    LET keys == SortedKeys({rows[i].UBIGEO : i \in 1..Len(rows)})
    IN [k \in 1..Len(keys) |->
          [UBIGEO |-> keys[k],
           num_hospitales |->
              Cardinality({i \in 1..Len(rows) : rows[i].UBIGEO = keys[k]})]]

count_row(m, n) ==
    [idx |-> 0, UBIGEO |-> m.UBIGEO, DISTRITO |-> m.DISTRITO,
     geometry |-> m.geometry, maps_idx |-> m.idx, num_hospitales |-> n]

\* the count column left as the merge produced it
fillna_skipped(x) == x
fillna0(x) == IF x = NaN THEN 0 ELSE x

\* an inner merge in place of the left merge: unmatched districts are lost
left_merge_inner(left, right) ==
    LET matches(m) ==
          LET same(c) == c.UBIGEO = m.UBIGEO
              cs == SelectSeq(right, same)
          IN [j \in 1..Len(cs) |-> count_row(m, cs[j].num_hospitales)]
    IN reset_index(Flatten([i \in 1..Len(left) |-> matches(left[i])]))

\* maps_gdf.merge(hospital_count, on='UBIGEO', how='left'): every left row,
\* once per matching right row, or once with a missing count if none matches
left_merge(left, right) ==
    LET matches(m) ==
          LET same(c) == c.UBIGEO = m.UBIGEO
              cs == SelectSeq(right, same)
          IN IF cs = <<>> THEN <<count_row(m, NaN)>>
             ELSE [j \in 1..Len(cs) |-> count_row(m, cs[j].num_hospitales)]
    IN reset_index(Flatten([i \in 1..Len(left) |-> matches(left[i])]))

calculate_hospital_counts(dataset, maps_gdf) ==
    IF ~dataset.ok \/ ~maps_gdf.ok THEN None
    ELSE LET hospital_count == groupby_ubigeo_size(dataset.rows)
             merged == left_merge(maps_gdf.rows, hospital_count)
         IN Table(maps_gdf.cols \cup {"num_hospitales"},
                  [i \in 1..Len(merged) |->
                     [merged[i] EXCEPT !.num_hospitales = fillna0(@)]])

(* ---------------------- calculate_department_stats --------------------- *)
\* department names in their string (alphabetical) order
DeptNames == <<"LIMA", "LORETO">>

\* dataset_cv.groupby('DEPARTAMENTO').size(): one group per department
\* present, keys ascending; rows with a missing department form no group
groupby_departamento_size(rows) ==
    LET present(d) == \E i \in 1..Len(rows) : rows[i].DEPARTAMENTO = d
        keys == SelectSeq(DeptNames, present)
    IN [k \in 1..Len(keys) |->
          [DEPARTAMENTO |-> keys[k],
           total_hospitals |->
              Cardinality({i \in 1..Len(rows) : rows[i].DEPARTAMENTO = keys[k]})]]

RECURSIVE InsertDesc(_, _)
\* insert r after every row whose count is >= its own
InsertDesc(sorted, r) ==
    IF sorted = <<>> THEN <<r>>
    ELSE IF Head(sorted).total_hospitals >= r.total_hospitals
         THEN <<Head(sorted)>> \o InsertDesc(Tail(sorted), r)
         ELSE <<r>> \o sorted

\* the groups left in groupby order
sort_values_skipped(rows) == rows

RECURSIVE sort_values_desc(_)
\* sort_values('total_hospitals', ascending=False): rows of equal count keep
\* their order
sort_values_desc(rows) ==
    IF rows = <<>> THEN <<>>
    ELSE InsertDesc(sort_values_desc(SubSeq(rows, 1, Len(rows) - 1)),
                    rows[Len(rows)])

calculate_department_stats(dataset) ==
    IF ~dataset.ok THEN None
    ELSE IF "DEPARTAMENTO" \notin dataset.cols THEN None
    ELSE Table({"DEPARTAMENTO", "total_hospitals"},
               sort_values_desc(groupby_departamento_size(dataset.rows)))

(* ------------------------- load_and_process_ccpp ----------------------- *)
\* text is a sequence of one-character strings, so that substring tests and
\* upper-casing are computed rather than assumed
LowerCase == <<"a", "b", "c", "d", "e", "f", "g", "h", "i", "j", "k", "l", "m", "n", "o", "p", "q", "r", "s", "t", "u", "v", "w", "x", "y", "z">>
UpperCase == <<"A", "B", "C", "D", "E", "F", "G", "H", "I", "J", "K", "L", "M", "N", "O", "P", "Q", "R", "S", "T", "U", "V", "W", "X", "Y", "Z">>
upper_char(c) ==
    IF \E i \in 1..Len(LowerCase) : LowerCase[i] = c
    THEN UpperCase[CHOOSE i \in 1..Len(LowerCase) : LowerCase[i] = c]
    ELSE c
\* str.upper()
upper(t) == [i \in 1..Len(t) |-> upper_char(t[i])]
\* keyword in col_upper
Contains(t, kw) ==
    \E i \in 0..(Len(t) - Len(kw)) : SubSeq(t, i + 1, i + Len(kw)) = kw
any_keyword(t, kws) == \E kw \in kws : Contains(t, kw)

\* a missing text cell of the population-center table
NAText == <<"<NA>">>
\* the cell compared as it is written
str_upper_exact(t) == t
\* Series.str.upper(): a missing cell stays missing
str_upper(t) == IF t = NAText THEN NAText ELSE upper(t)

KW_NOMBCCPP == {<<"P", "O", "B", "L", "A", "D">>, <<"N", "O", "M", "B", "C", "C", "P", "P">>, <<"C", "E", "N", "T", "R", "O">>}
KW_NOMBDEP == {<<"D", "E", "P">>, <<"D", "E", "P", "A", "R", "T", "A", "M", "E", "N", "T", "O">>}
KW_NOMBPROV == {<<"P", "R", "O", "V">>, <<"P", "R", "O", "V", "I", "N", "C", "I", "A">>}
KW_NOMBDIST == {<<"D", "I", "S", "T">>, <<"D", "I", "S", "T", "R", "I", "T", "O">>}
KW_IDCCPP == {<<"I", "D">>, <<"C", "O", "D", "I", "G", "O">>, <<"C", "O", "D">>}
NOMBCCPP == <<"N", "O", "M", "B", "C", "C", "P", "P">>
NOMBDEP == <<"N", "O", "M", "B", "D", "E", "P">>
NOMBPROV == <<"N", "O", "M", "B", "P", "R", "O", "V">>
NOMBDIST == <<"N", "O", "M", "B", "D", "I", "S", "T">>
IDCCPP == <<"I", "D", "C", "C", "P", "P">>

\* the if/elif chain of the column loop; an unmatched column keeps its name
column_mapping(col) ==
    LET col_upper == upper(col)
    IN IF any_keyword(col_upper, KW_NOMBCCPP) THEN NOMBCCPP
       ELSE IF any_keyword(col_upper, KW_NOMBDEP) THEN NOMBDEP
       ELSE IF any_keyword(col_upper, KW_NOMBPROV) THEN NOMBPROV
       ELSE IF any_keyword(col_upper, KW_NOMBDIST) THEN NOMBDIST
       ELSE IF any_keyword(col_upper, KW_IDCCPP) THEN IDCCPP
       ELSE col

\* positions of the columns that carry a name after the rename
columns_named(cols, name) == {i \in 1..Len(cols) : cols[i] = name}
has_column(cols, name) == columns_named(cols, name) # {}

\* ccpp.drop_duplicates(subset=['IDCCPP']): the first row of every id
drop_duplicates(rows, cols) ==
    LET pos == columns_named(cols, IDCCPP)
        key(r) == [i \in pos |-> r.cells[i]]
        first(i) == \A j \in 1..(i - 1) : key(rows[j]) # key(rows[i])
        keep == {i \in 1..Len(rows) : first(i)}
        kept(r) == \E i \in keep : rows[i] = r
    IN SelectSeq(rows, kept)

NoneCcpp == [ok |-> FALSE, cols |-> <<>>, rows |-> <<>>]

load_and_process_ccpp(file) ==
    IF ~file.exists THEN NoneCcpp
    ELSE IF ~file.readable THEN NoneCcpp
    ELSE IF Len(file.rows) = 0 THEN NoneCcpp
    ELSE LET cols == [i \in 1..Len(file.cols) |-> column_mapping(file.cols[i])]
             is_valid(r) == r.valid
             valid == SelectSeq(file.rows, is_valid)
         IN [ok |-> TRUE, cols |-> cols,
             rows |-> IF has_column(cols, IDCCPP)
                      THEN drop_duplicates(valid, cols) ELSE valid]

(* --------------------------- analyze_proximity ------------------------- *)
LIMA == <<"L", "I", "M", "A">>
LORETO == <<"L", "O", "R", "E", "T", "O">>

NoneAnalysis ==
    [none |-> TRUE, most_isolated |-> <<>>, most_concentrated |-> <<>>,
     department_ccpp |-> <<>>]

\* create_buffer_safe: the 10 km disc around a center.  Points lie on the
\* tenth-of-a-degree grid, whose neighbours are more than 10 km apart, so a
\* disc holds exactly the grid point of its center
\* When the projection or the buffering raises for a geometry, the frame comes
\* back as it was, without the buffer_10km column
create_buffer_safe(rows) ==
    IF \E i \in 1..Len(rows) : rows[i].raises = "buffer" THEN rows
    ELSE [i \in 1..Len(rows) |->
            [idx |-> rows[i].idx, cells |-> rows[i].cells, valid |-> rows[i].valid,
             loc |-> rows[i].loc, raises |-> rows[i].raises,
             buffer_10km |-> [center |-> rows[i].loc]]]

within(point, buffer) == point = buffer.center

\* len(hospitals_gdf[hospitals_gdf.geometry.within(row['buffer_10km'])]);
\* `except Exception: return 0` when the predicate raises for the row
count_hospitals_safe(row, hospitals_rows) ==
    IF row.raises = "within" THEN 0
    ELSE Cardinality({i \in 1..Len(hospitals_rows) :
                    within(hospitals_rows[i].geometry, row.buffer_10km)})

\* Series.idxmin(): position of the first row holding the minimum
idxmin(rows) ==
    CHOOSE i \in 1..Len(rows) :
        /\ \A j \in 1..Len(rows) : rows[i].hospitals_in_10km <= rows[j].hospitals_in_10km
        /\ \A j \in 1..(i - 1) : rows[j].hospitals_in_10km # rows[i].hospitals_in_10km
\* the last row holding the maximum
idxmax_last(rows) ==
    CHOOSE i \in 1..Len(rows) :
        /\ \A j \in 1..Len(rows) : rows[i].hospitals_in_10km >= rows[j].hospitals_in_10km
        /\ \A j \in (i + 1)..Len(rows) : rows[j].hospitals_in_10km # rows[i].hospitals_in_10km
\* Series.idxmax(): position of the first row holding the maximum
idxmax(rows) ==
    CHOOSE i \in 1..Len(rows) :
        /\ \A j \in 1..Len(rows) : rows[i].hospitals_in_10km >= rows[j].hospitals_in_10km
        /\ \A j \in 1..(i - 1) : rows[j].hospitals_in_10km # rows[i].hospitals_in_10km

analyze_proximity(ccpp_gdf, hospitals_gdf, department_name) ==
    IF ~ccpp_gdf.ok THEN NoneAnalysis
    ELSE IF ~has_column(ccpp_gdf.cols, NOMBDEP) THEN NoneAnalysis
    \* two columns renamed to NOMBDEP: the selection is a frame, .str raises
    ELSE IF Cardinality(columns_named(ccpp_gdf.cols, NOMBDEP)) > 1 THEN NoneAnalysis
    ELSE LET dep == CHOOSE i \in columns_named(ccpp_gdf.cols, NOMBDEP) : TRUE
             in_department(r) == str_upper(r.cells[dep]) = upper(department_name)
             department_ccpp == SelectSeq(ccpp_gdf.rows, in_department)
         IN IF Len(department_ccpp) = 0 THEN NoneAnalysis
            ELSE LET buffered == create_buffer_safe(department_ccpp)
                     counted == [i \in 1..Len(buffered) |->
                        [idx |-> buffered[i].idx, cells |-> buffered[i].cells,
                         valid |-> buffered[i].valid, loc |-> buffered[i].loc,
                         raises |-> buffered[i].raises,
                         buffer_10km |-> buffered[i].buffer_10km,
                         hospitals_in_10km |->
                            count_hospitals_safe(buffered[i], hospitals_gdf.rows)]]
                 IN IF \E i \in 1..Len(buffered) :
                          "buffer_10km" \notin DOMAIN buffered[i]
                    THEN NoneAnalysis
                    ELSE
                    [none |-> FALSE,
                     most_isolated |-> <<counted[idxmin(counted)]>>,
                     most_concentrated |-> <<counted[idxmax(counted)]>>,
                     department_ccpp |-> counted]

\* the count column set on the table received, not on a copy
analyze_proximity_arguments_inplace(ccpp_gdf, hospitals_gdf, department_name) ==
    [ccpp_gdf |->
        [ccpp_gdf EXCEPT !.rows =
            [i \in 1..Len(ccpp_gdf.rows) |->
                ccpp_gdf.rows[i] @@ [hospitals_in_10km |-> 0]]],
     hospitals_gdf |-> hospitals_gdf]

\* The two tables as the call leaves them.  The selection of the department
\* is a .copy(), the buffer and count columns are set on that copy, and the
\* facility table is only read
analyze_proximity_arguments(ccpp_gdf, hospitals_gdf, department_name) ==
    [ccpp_gdf |-> ccpp_gdf, hospitals_gdf |-> hospitals_gdf]

(* ------------------------------ load_all_data -------------------------- *)
\* gpd.GeoDataFrame(dataset_cv, geometry=points_from_xy(LONGITUD, LATITUD)):
\* the joined rows with the point (x, y) as their geometry
points_from_xy(rows) ==
    [i \in 1..Len(rows) |->
       [idx |-> rows[i].idx, UBIGEO |-> rows[i].UBIGEO,
        DISTRITO |-> rows[i].DISTRITO,
        geometry |-> <<rows[i].LONGITUD, rows[i].LATITUD>>,
        maps_idx |-> rows[i].maps_idx, hospitals_idx |-> rows[i].hospitals_idx,
        LONGITUD |-> rows[i].LONGITUD, LATITUD |-> rows[i].LATITUD,
        DEPARTAMENTO |-> rows[i].DEPARTAMENTO, ESTADO |-> rows[i].ESTADO]]

validate_file_paths(csv, shp, zip) ==
    [IPRESS |-> csv.exists, DISTRITOS |-> shp.exists, CCPP |-> zip.exists]

NoResult ==
    [ok |-> FALSE, hospitals |-> None, maps |-> None, dataset_cv |-> None,
     map_data |-> None, dept_stats |-> None, gdf_hospitales |-> None,
     lima_analysis |-> NoneAnalysis, loreto_analysis |-> NoneAnalysis]

(* ------------------------------- the inputs ---------------------------- *)
Raw(e, c, n, es, u, d) ==
    [Estado |-> e, Condicion |-> c, NORTE |-> n, ESTE |-> es, UBIGEO |-> u,
     Departamento |-> d]
Good(n, es, u, d) == Raw("ACTIVADO", "EN FUNCIONAMIENTO", n, es, u, d)

\* rows that pass every filter
GoodRows ==
    {Good(-120, -770, "1", "LIMA"), Good(0, -680, "2", "LORETO"),
     Good(-185, -815, "1", NA)}
\* rows that fail exactly one filter
DirtyRows ==
    {Raw("INACTIVO", "EN FUNCIONAMIENTO", -120, -770, "1", "LIMA"),
     Raw("ACTIVADO", "CIERRE", -120, -770, "1", "LIMA"),
     Good(NaN, -770, "1", "LIMA"), Good(-120, NaN, "1", "LIMA"),
     Good(-770, -770, "1", "LIMA"), Good(-120, -120, "1", "LIMA"),
     Good(-120, -770, "x", "LIMA")}
\* a facility of a district the boundary file may lack
JoinRows == GoodRows \cup {Good(-120, -770, "3", "LORETO")}

FullColumns ==
    {"Codigo Unico", "Nombre del establecimiento", "UBIGEO", "NORTE", "ESTE",
     "Departamento", "Estado", "Condicion"}
AllEncodings == {"utf-8", "latin1", "cp1252"}
\* what the detection can yield: a codec name, None, or an exception
Detections == {"utf-8", "latin1", "ascii", "<None>", "<raises>"}
\* codecs that decode a UTF-8 file and a Latin-1 file with accented letters
\* without raising
Utf8File == AllEncodings
Latin1File == {"latin1", "cp1252"}

Csv(rows) ==
    [exists |-> TRUE, detected |-> "utf-8", parses |-> AllEncodings,
     garbles |-> {}, cols |-> FullColumns, rows |-> rows]
\* a column the file lacks has no cells
without(rows, col) ==
    [i \in 1..Len(rows) |->
       CASE col = "UBIGEO" -> [rows[i] EXCEPT !.UBIGEO = NA]
         [] col = "Departamento" -> [rows[i] EXCEPT !.Departamento = NA]
         [] col = "Estado" -> [rows[i] EXCEPT !.Estado = NA]
         [] col = "Condicion" -> [rows[i] EXCEPT !.Condicion = NA]
         [] col = "NORTE" -> [rows[i] EXCEPT !.NORTE = NaN]
         [] col = "ESTE" -> [rows[i] EXCEPT !.ESTE = NaN]
         [] OTHER -> rows[i]]
CsvRows0 ==
    <<[idx |-> 0] @@ Good(-120, -770, "1", "LIMA"),
      [idx |-> 1] @@ Good(0, -680, "2", "LORETO")>>
CsvMissing ==
    [exists |-> FALSE, detected |-> "utf-8", parses |-> {}, garbles |-> {},
     cols |-> {}, rows |-> <<>>]
CsvDefects ==
    {CsvMissing,
     [Csv(CsvRows0) EXCEPT !.parses = {}],
     [Csv(CsvRows0) EXCEPT !.parses = {"latin1", "cp1252"}],
     [Csv(CsvRows0) EXCEPT !.detected = "ascii", !.parses = {"ascii"} \cup AllEncodings]}
    \cup {[Csv(CsvRows0) EXCEPT !.detected = d, !.parses = p, !.garbles = g] :
            d \in Detections, p \in {Utf8File, Latin1File},
            g \in {{}, Latin1File}}
    \cup {[Csv(without(CsvRows0, c)) EXCEPT !.cols = FullColumns \ {c}] :
            c \in FullColumns}

District(code, valid) ==
    [code |-> code, DISTRITO |-> code, geometry |-> [valid |-> valid]]
DistrictRows ==
    {District("1", TRUE), District("2", TRUE), District("1", FALSE),
     District("x", TRUE)}
Shp(rows) ==
    [exists |-> TRUE, readable |-> TRUE, idcol |-> "IDDIST",
     hasDistrito |-> TRUE, rows |-> rows]
ShpRows0 ==
    <<[idx |-> 0] @@ District("1", TRUE), [idx |-> 1] @@ District("2", TRUE)>>
ShpMissing ==
    [exists |-> FALSE, readable |-> FALSE, idcol |-> "none",
     hasDistrito |-> FALSE, rows |-> <<>>]
ShpDefects ==
    {ShpMissing, Shp(<<>>),
     [Shp(<<>>) EXCEPT !.readable = FALSE],
     [Shp(ShpRows0) EXCEPT !.idcol = "UBIGEO"],
     [Shp(ShpRows0) EXCEPT !.idcol = "none"],
     [Shp(ShpRows0) EXCEPT !.hasDistrito = FALSE]}

\* `raises` names the step that raises an exception for the row's geometry:
\* "buffer" (projection or buffering), "within" (the containment test) or none
Center(dep, id, valid, loc) ==
    [cells |-> <<dep, id>>, valid |-> valid, loc |-> loc, raises |-> ""]
CenterRows ==
    {Center(LIMA, <<"7">>, TRUE, <<-120, -770>>),
     Center(<<"L", "i", "m", "a">>, <<"8">>, TRUE, <<0, -680>>),
     Center(LORETO, <<"7">>, TRUE, <<-120, -770>>),
     Center(NAText, <<"8">>, TRUE, <<-120, -770>>),
     Center(LIMA, <<"7">>, FALSE, <<0, -680>>),
     Center(LIMA, <<"8">>, TRUE, <<-770, -120>>),
     [Center(LIMA, <<"9">>, TRUE, <<-120, -770>>) EXCEPT !.raises = "within"],
     [Center(LORETO, <<"9">>, TRUE, <<0, -680>>) EXCEPT !.raises = "buffer"]}
CenterSchemas ==
    {<<<<"D", "E", "P">>, <<"C", "O", "D", "I", "G", "O">>>>, <<<<"d", "e", "p">>, <<"X">>>>,
     <<<<"N", "O", "M", "B", "D", "E", "P">>, <<"O", "B", "J", "E", "C", "T", "I", "D">>>>, <<<<"R", "E", "G", "I", "O", "N">>, <<"I", "D">>>>,
     <<<<"D", "E", "P">>, <<"C", "O", "D", "D", "E", "P">>>>,
     <<<<"C", "O", "D">>, <<"I", "D">>>>}
Zip(cols, rows) ==
    [exists |-> TRUE, readable |-> TRUE, cols |-> cols, rows |-> rows]
ZipMissing == [exists |-> FALSE, readable |-> FALSE, cols |-> <<>>, rows |-> <<>>]
ZipCols0 == <<<<"D", "E", "P">>, <<"C", "O", "D", "I", "G", "O">>>>
ZipRows0 == <<[idx |-> 0] @@ Center(LIMA, <<"7">>, TRUE, <<-120, -770>>)>>
ZipDefects ==
    {ZipMissing, Zip(ZipCols0, <<>>),
     [Zip(ZipCols0, <<>>) EXCEPT !.readable = FALSE]}

\* facility rows of the population-center runs
ProximityRows == {Good(-120, -770, "1", "LIMA"), Good(0, -680, "2", "LORETO")}

\* label the rows of a table 0..n-1, as a freshly read file has them
RangeIndex(t) == [i \in 1..Len(t) |-> [idx |-> i - 1] @@ t[i]]

(* ------------------------------ the pipeline --------------------------- *)
VARIABLES IPRESS, DISTRITOS, CCPP,      \* the three input files
          pc,                           \* next stage of load_all_data
          hospitals, maps, dataset_cv, map_data, dept_stats, ccpp,
          gdf_hospitales, lima_analysis, loreto_analysis,
          result,                       \* what load_all_data returned
          calls,                        \* the stage functions called so far
          encodings_tried               \* encodings handed to pd.read_csv

vars == <<IPRESS, DISTRITOS, CCPP, pc, hospitals, maps, dataset_cv, map_data,
          dept_stats, ccpp, gdf_hospitales, lima_analysis, loreto_analysis,
          result, calls, encodings_tried>>
files == <<IPRESS, DISTRITOS, CCPP>>

\* any facility file, the reference boundaries, no population centers
InitFacilities ==
    /\ \E k \in 0..MaxRows : \E t \in [1..k -> GoodRows \cup DirtyRows] :
          IPRESS = Csv(RangeIndex(t))
    /\ DISTRITOS = Shp(ShpRows0)
    /\ CCPP = ZipMissing

\* clean facilities, any boundary file, no population centers
InitBoundaries ==
    /\ \E k \in 0..MaxRows : \E t \in [1..k -> JoinRows] :
          IPRESS = Csv(RangeIndex(t))
    /\ \E k \in 0..MaxDistricts : \E d \in [1..k -> DistrictRows] :
          DISTRITOS = Shp(RangeIndex(d))
    /\ CCPP = ZipMissing

\* any facilities around any population centers
InitCenters ==
    /\ \E k \in 0..MaxRows : \E t \in [1..k -> ProximityRows] :
          IPRESS = Csv(RangeIndex(t))
    /\ DISTRITOS = Shp(ShpRows0)
    /\ \E k \in 0..MaxCenters : \E p \in [1..k -> CenterRows] :
          CCPP = Zip(ZipCols0, RangeIndex(p))

\* any column naming of the population-center file
InitSchemas ==
    /\ IPRESS = Csv(CsvRows0)
    /\ DISTRITOS = Shp(ShpRows0)
    /\ \E c \in CenterSchemas : \E k \in 0..MaxCenters :
          \E p \in [1..k -> CenterRows] : CCPP = Zip(c, RangeIndex(p))

\* missing, unreadable and malformed files
InitDefects ==
    /\ IPRESS \in CsvDefects \cup {Csv(CsvRows0)}
    /\ DISTRITOS \in ShpDefects \cup {Shp(ShpRows0)}
    /\ CCPP \in ZipDefects \cup {Zip(ZipCols0, ZipRows0)}

Init ==
    /\ \/ InitFacilities \/ InitBoundaries \/ InitCenters \/ InitSchemas
       \/ InitDefects
    /\ pc = "validate"
    /\ hospitals = None /\ maps = None /\ dataset_cv = None
    /\ map_data = None /\ dept_stats = None /\ ccpp = NoneCcpp
    /\ gdf_hospitales = None
    /\ lima_analysis = NoneAnalysis /\ loreto_analysis = NoneAnalysis
    /\ result = NoResult
    /\ calls = <<>>
    /\ encodings_tried = <<>>

\* `return None`
Abort == pc' = "done" /\ result' = NoResult

\* the path check reported but not acted upon
Validate_NoAbort ==
    /\ pc = "validate"
    /\ calls' = Append(calls, "validate_file_paths")
    /\ pc' = "hospitals" /\ UNCHANGED result
    /\ UNCHANGED <<files, encodings_tried, hospitals, maps, dataset_cv,
                   map_data, dept_stats, ccpp, gdf_hospitales, lima_analysis,
                   loreto_analysis>>

Validate ==
    /\ pc = "validate"
    /\ calls' = Append(calls, "validate_file_paths")
    /\ LET file_status == validate_file_paths(IPRESS, DISTRITOS, CCPP)
       IN IF ~file_status.IPRESS \/ ~file_status.DISTRITOS
          THEN Abort
          ELSE pc' = "hospitals" /\ UNCHANGED result
    /\ UNCHANGED <<files, encodings_tried, hospitals, maps, dataset_cv,
                   map_data, dept_stats, ccpp, gdf_hospitales, lima_analysis,
                   loreto_analysis>>

LoadHospitals ==
    /\ pc = "hospitals"
    /\ calls' = Append(calls, "load_and_clean_hospitals")
    /\ hospitals' = load_and_clean_hospitals(IPRESS)
    /\ encodings_tried' = IF IPRESS.exists THEN attempts(IPRESS) ELSE <<>>
    /\ IF ~hospitals'.ok THEN Abort
       ELSE pc' = "shapefile" /\ UNCHANGED result
    /\ UNCHANGED <<files, maps, dataset_cv, map_data, dept_stats, ccpp,
                   gdf_hospitales, lima_analysis, loreto_analysis>>

LoadShapefile ==
    /\ pc = "shapefile"
    /\ calls' = Append(calls, "load_and_process_shapefile")
    /\ maps' = load_and_process_shapefile(DISTRITOS)
    /\ IF ~maps'.ok THEN Abort
       ELSE pc' = "merge" /\ UNCHANGED result
    /\ UNCHANGED <<files, encodings_tried, hospitals, dataset_cv, map_data,
                   dept_stats, ccpp, gdf_hospitales, lima_analysis,
                   loreto_analysis>>

Merge ==
    /\ pc = "merge"
    /\ calls' = Append(calls, "merge_hospitals_with_shapefile")
    /\ dataset_cv' = merge_hospitals_with_shapefile(hospitals, maps)
    /\ IF ~dataset_cv'.ok THEN Abort
       ELSE pc' = "counts" /\ UNCHANGED result
    /\ UNCHANGED <<files, encodings_tried, hospitals, maps, map_data,
                   dept_stats, ccpp, gdf_hospitales, lima_analysis,
                   loreto_analysis>>

Counts ==
    /\ pc = "counts"
    /\ calls' = Append(calls, "calculate_hospital_counts")
    /\ map_data' = calculate_hospital_counts(dataset_cv, maps)
    /\ IF ~map_data'.ok THEN Abort
       ELSE pc' = "dept" /\ UNCHANGED result
    /\ UNCHANGED <<files, encodings_tried, hospitals, maps, dataset_cv,
                   dept_stats, ccpp, gdf_hospitales, lima_analysis,
                   loreto_analysis>>

\* the stage without its `is None` check
DeptStats_Unchecked ==
    /\ pc = "dept"
    /\ calls' = Append(calls, "calculate_department_stats")
    /\ dept_stats' = calculate_department_stats(dataset_cv)
    /\ pc' = "ccpp" /\ UNCHANGED result
    /\ UNCHANGED <<files, encodings_tried, hospitals, maps, dataset_cv,
                   map_data, ccpp, gdf_hospitales, lima_analysis,
                   loreto_analysis>>

DeptStats ==
    /\ pc = "dept"
    /\ calls' = Append(calls, "calculate_department_stats")
    /\ dept_stats' = calculate_department_stats(dataset_cv)
    /\ IF ~dept_stats'.ok THEN Abort
       ELSE pc' = "ccpp" /\ UNCHANGED result
    /\ UNCHANGED <<files, encodings_tried, hospitals, maps, dataset_cv,
                   map_data, ccpp, gdf_hospitales, lima_analysis,
                   loreto_analysis>>

LoadCcpp ==
    /\ pc = "ccpp"
    /\ calls' = Append(calls, "load_and_process_ccpp")
    /\ ccpp' = load_and_process_ccpp(CCPP)
    /\ pc' = "gdf"
    /\ UNCHANGED <<files, encodings_tried, hospitals, maps, dataset_cv,
                   map_data, dept_stats, gdf_hospitales, lima_analysis,
                   loreto_analysis, result>>

\* the proximity analyses run whether or not the centers were loaded
BuildGdf_AlwaysAnalyze ==
    /\ pc = "gdf"
    /\ calls' = Append(calls, "GeoDataFrame")
    /\ gdf_hospitales' = Table(dataset_cv.cols, points_from_xy(dataset_cv.rows))
    /\ pc' = "lima"
    /\ UNCHANGED <<files, encodings_tried, hospitals, maps, dataset_cv,
                   map_data, dept_stats, ccpp, lima_analysis, loreto_analysis,
                   result>>

\* LONGITUD and LATITUD come from required columns and were range-checked as
\* numbers, so the constructor has nothing to raise on and the except branch
\* is never taken
BuildGdf ==
    /\ pc = "gdf"
    /\ calls' = Append(calls, "GeoDataFrame")
    /\ gdf_hospitales' = Table(dataset_cv.cols, points_from_xy(dataset_cv.rows))
    /\ pc' = IF ccpp.ok THEN "lima" ELSE "return"
    /\ UNCHANGED <<files, encodings_tried, hospitals, maps, dataset_cv,
                   map_data, dept_stats, ccpp, lima_analysis, loreto_analysis,
                   result>>

\* the first analysis treated as a required stage
AnalyzeLima_Required ==
    /\ pc = "lima"
    /\ calls' = Append(calls, "analyze_proximity")
    /\ lima_analysis' = analyze_proximity(ccpp, gdf_hospitales, LIMA)
    /\ IF lima_analysis'.none THEN Abort
       ELSE pc' = "loreto" /\ UNCHANGED result
    /\ ccpp' = analyze_proximity_arguments(ccpp, gdf_hospitales, LIMA).ccpp_gdf
    /\ gdf_hospitales' =
          analyze_proximity_arguments(ccpp, gdf_hospitales, LIMA).hospitals_gdf
    /\ UNCHANGED <<files, encodings_tried, hospitals, maps, dataset_cv,
                   map_data, dept_stats, loreto_analysis>>

AnalyzeLima ==
    /\ pc = "lima"
    /\ calls' = Append(calls, "analyze_proximity")
    /\ lima_analysis' = analyze_proximity(ccpp, gdf_hospitales, LIMA)
    /\ pc' = "loreto"
    /\ ccpp' = analyze_proximity_arguments(ccpp, gdf_hospitales, LIMA).ccpp_gdf
    /\ gdf_hospitales' =
          analyze_proximity_arguments(ccpp, gdf_hospitales, LIMA).hospitals_gdf
    /\ UNCHANGED <<files, encodings_tried, hospitals, maps, dataset_cv,
                   map_data, dept_stats, loreto_analysis, result>>

AnalyzeLoreto ==
    /\ pc = "loreto"
    /\ calls' = Append(calls, "analyze_proximity")
    /\ loreto_analysis' = analyze_proximity(ccpp, gdf_hospitales, LORETO)
    /\ pc' = "return"
    /\ ccpp' = analyze_proximity_arguments(ccpp, gdf_hospitales, LORETO).ccpp_gdf
    /\ gdf_hospitales' =
          analyze_proximity_arguments(ccpp, gdf_hospitales, LORETO).hospitals_gdf
    /\ UNCHANGED <<files, encodings_tried, hospitals, maps, dataset_cv,
                   map_data, dept_stats, lima_analysis, result>>

\* the result dictionary
Return ==
    /\ pc = "return"
    /\ result' = [ok |-> TRUE, hospitals |-> hospitals, maps |-> maps,
                  dataset_cv |-> dataset_cv, map_data |-> map_data,
                  dept_stats |-> dept_stats, gdf_hospitales |-> gdf_hospitales,
                  lima_analysis |-> lima_analysis,
                  loreto_analysis |-> loreto_analysis]
    /\ pc' = "done"
    /\ UNCHANGED <<files, encodings_tried, hospitals, maps, dataset_cv,
                   map_data, dept_stats, ccpp, gdf_hospitales, lima_analysis,
                   loreto_analysis, calls>>

Next ==
    \/ Validate \/ LoadHospitals \/ LoadShapefile \/ Merge \/ Counts
    \/ DeptStats \/ LoadCcpp \/ BuildGdf \/ AnalyzeLima \/ AnalyzeLoreto
    \/ Return

Spec == Init /\ [][Next]_vars

(* ------------------------------- properties ---------------------------- *)
Returned == pc = "done"

\* what each required stage yields on the input files of the run
StageHospitals == load_and_clean_hospitals(IPRESS)
StageMaps == load_and_process_shapefile(DISTRITOS)
StageJoin == merge_hospitals_with_shapefile(StageHospitals, StageMaps)
StageCounts == calculate_hospital_counts(StageJoin, StageMaps)
StageDept == calculate_department_stats(StageJoin)
RequiredFailure ==
    \/ ~IPRESS.exists \/ ~DISTRITOS.exists
    \/ ~StageHospitals.ok \/ ~StageMaps.ok \/ ~StageJoin.ok
    \/ ~StageCounts.ok \/ ~StageDept.ok

\* C1: load_all_data returns None whenever a required file is absent or a
\* required stage fails, and a returned bundle has all six required tables
\* present and not None.
C1_NoPartialResult ==
    Returned =>
       /\ RequiredFailure => result = NoResult
       /\ result.ok =>
            /\ result.hospitals.ok /\ result.maps.ok /\ result.dataset_cv.ok
            /\ result.map_data.ok /\ result.dept_stats.ok
            /\ result.gdf_hospitales.ok
       /\ ~result.ok => result = NoResult

\* a required stage failed after earlier stages had produced their tables
C1_Witness ==
    /\ Returned /\ result = NoResult
    /\ hospitals.ok /\ maps.ok /\ dataset_cv.ok /\ map_data.ok /\ ~dept_stats.ok

\* C2: when the population-center file is absent or its load is unavailable
\* and every required stage succeeds, load_all_data returns a bundle whose
\* two proximity entries are (None, None, None), and analyze_proximity is
\* never called.
C2_CcppOptional ==
    ~load_and_process_ccpp(CCPP).ok =>
       /\ "analyze_proximity" \notin Range(calls)
       /\ (Returned /\ ~RequiredFailure) =>
            /\ result.ok
            /\ result.lima_analysis = NoneAnalysis
            /\ result.loreto_analysis = NoneAnalysis

C2_Witness ==
    /\ Returned /\ ~CCPP.exists /\ result.ok
    /\ result.lima_analysis = NoneAnalysis /\ Len(calls) = 8

\* C3: the per-district count table has exactly one row per row of the
\* district table: none dropped, none duplicated.
C3_CountRowsEqualDistricts ==
    map_data.ok =>
       /\ Len(map_data.rows) = Len(maps.rows)
       /\ \A i \in 1..Len(maps.rows) : map_data.rows[i].maps_idx = maps.rows[i].idx

\* a district without facilities next to joined rows of a repeated code
C3_Witness ==
    /\ map_data.ok /\ Len(maps.rows) = 2
    /\ \E i \in 1..Len(map_data.rows) : map_data.rows[i].num_hospitales = 0
    /\ Len(dataset_cv.rows) = 3

JoinedWithCode(u) == {j \in 1..Len(dataset_cv.rows) : dataset_cv.rows[j].UBIGEO = u}
CountColumn == [i \in 1..Len(map_data.rows) |-> map_data.rows[i].num_hospitales]

\* C4: the hospital counts of the per-district table sum to the number of
\* rows of the joined table, also when a district code is on several rows of
\* the boundary table.
C4_CountsSumToJoined ==
    map_data.ok => SumSeq(CountColumn) = Len(dataset_cv.rows)

\* C5: every district row's count is a non-negative integer, the number of
\* joined rows that carry its code, and 0 when no joined row carries it.
C5_CountPerDistrict ==
    map_data.ok =>
       \A i \in 1..Len(map_data.rows) :
          LET n == map_data.rows[i].num_hospitales
              joined == JoinedWithCode(map_data.rows[i].UBIGEO)
          IN /\ n \in Nat
             /\ n = Cardinality(joined)
             /\ joined = {} => n = 0

\* one district with facilities, one without
C5_Witness ==
    /\ map_data.ok /\ Len(map_data.rows) = 2
    /\ map_data.rows[1].num_hospitales = 2 /\ map_data.rows[2].num_hospitales = 0
    /\ map_data.rows[1].UBIGEO # map_data.rows[2].UBIGEO

TotalColumn == [i \in 1..Len(dept_stats.rows) |-> dept_stats.rows[i].total_hospitals]

\* C6: the department totals sum to the number of rows of the joined table,
\* also when some joined rows have no department.
C6_TotalsSumToJoined ==
    dept_stats.ok => SumSeq(TotalColumn) = Len(dataset_cv.rows)

DepartmentsJoined ==
    {dataset_cv.rows[j].DEPARTAMENTO : j \in 1..Len(dataset_cv.rows)} \ {NA}
OneRowPerDepartment ==
    /\ {dept_stats.rows[i].DEPARTAMENTO : i \in 1..Len(dept_stats.rows)} = DepartmentsJoined
    /\ Len(dept_stats.rows) = Cardinality(DepartmentsJoined)

\* C7 as stated: one row per distinct department, rows strictly descending
\* by total_hospitals.
C7_StrictlyDescending ==
    dept_stats.ok =>
       /\ OneRowPerDepartment
       /\ \A i, j \in 1..Len(dept_stats.rows) :
             i < j => dept_stats.rows[i].total_hospitals > dept_stats.rows[j].total_hospitals

\* C7 amended: one row per distinct department, rows in non-increasing order
\* of total_hospitals (departments of equal count are adjacent).
C7_Descending ==
    dept_stats.ok =>
       /\ OneRowPerDepartment
       /\ \A i, j \in 1..Len(dept_stats.rows) :
             i < j => dept_stats.rows[i].total_hospitals >= dept_stats.rows[j].total_hospitals

\* the sort moved the alphabetically later department to the front
C7_Witness ==
    /\ dept_stats.ok /\ Len(dept_stats.rows) = 2
    /\ dept_stats.rows[1].DEPARTAMENTO = "LORETO"
    /\ dept_stats.rows[1].total_hospitals = 2
    /\ dept_stats.rows[2].total_hospitals = 1

RawRow(label) == CHOOSE r \in Range(IPRESS.rows) : r.idx = label
Qualifies(r) ==
    /\ r.Estado = "ACTIVADO" /\ r.Condicion = "EN FUNCIONAMIENTO"
    /\ r.NORTE # NaN /\ r.ESTE # NaN
    /\ -185 <= r.NORTE /\ r.NORTE <= 0 /\ -815 <= r.ESTE /\ r.ESTE <= -680
    /\ r.UBIGEO \in {"1", "2", "3"}

\* C8: every row of the cleaned table comes from a raw row with status
\* ACTIVADO, condition EN FUNCIONAMIENTO and both coordinates present, and
\* every raw row that passes the status, condition, coordinate, bounding-box
\* and integer-code predicates is in the cleaned table exactly once.
C8_CleanedRows ==
    hospitals.ok =>
       /\ \A i \in 1..Len(hospitals.rows) :
             /\ \E r \in Range(IPRESS.rows) : r.idx = hospitals.rows[i].idx
             /\ LET r == RawRow(hospitals.rows[i].idx)
                IN /\ r.Estado = "ACTIVADO" /\ r.Condicion = "EN FUNCIONAMIENTO"
                   /\ r.NORTE # NaN /\ r.ESTE # NaN
       /\ \A r \in Range(IPRESS.rows) :
             Qualifies(r) =>
                Cardinality({i \in 1..Len(hospitals.rows) :
                                hospitals.rows[i].idx = r.idx}) = 1

\* three raw rows of which two qualify give two cleaned rows
C8_Witness ==
    /\ hospitals.ok /\ Len(IPRESS.rows) = 3 /\ Len(hospitals.rows) = 2
    /\ Cardinality({r \in Range(IPRESS.rows) : Qualifies(r)}) = 2
    /\ \E r \in Range(IPRESS.rows) : r.Condicion # "EN FUNCIONAMIENTO"

\* C9: every cleaned facility has LATITUD in [-18.5, 0] and LONGITUD in
\* [-81.5, -68].
C9_CoordinatesInBox ==
    hospitals.ok =>
       \A i \in 1..Len(hospitals.rows) :
          /\ -185 <= hospitals.rows[i].LATITUD /\ hospitals.rows[i].LATITUD <= 0
          /\ -815 <= hospitals.rows[i].LONGITUD /\ hospitals.rows[i].LONGITUD <= -680

Matching(department_name) ==
    {i \in 1..Len(ccpp.rows) :
        \E c \in columns_named(ccpp.cols, NOMBDEP) :
           str_upper(ccpp.rows[i].cells[c]) = department_name}
Extremes(a) ==
    LET t == a.department_ccpp
        iso == a.most_isolated[1]
        con == a.most_concentrated[1]
        tied == \A i, j \in 1..Len(t) : t[i].hospitals_in_10km = t[j].hospitals_in_10km
    IN /\ iso \in Range(t) /\ con \in Range(t)
       /\ \A i \in 1..Len(t) :
             /\ iso.hospitals_in_10km <= t[i].hospitals_in_10km
             /\ con.hospitals_in_10km >= t[i].hospitals_in_10km
       /\ iso.hospitals_in_10km <= con.hospitals_in_10km
       /\ (Len(t) = 1 \/ tied) => iso = con
Analyzed(a, stage, department_name) ==
    /\ ~a.none => Extremes(a)
    /\ (/\ pc \in stage /\ ccpp.ok
        /\ Cardinality(columns_named(ccpp.cols, NOMBDEP)) = 1
        /\ Matching(department_name) # {}
        /\ \A i \in Matching(department_name) : ccpp.rows[i].raises # "buffer")
          => ~a.none

\* C10: for a department with at least one matching center whose buffers
\* are built without an exception analyze_proximity
\* returns an isolated and a concentrated record that are rows of the
\* per-center table, with the minimum and the maximum count of that table;
\* with one center, or all centers tied, both are the same record.
C10_Extremes ==
    /\ Analyzed(lima_analysis, {"loreto", "return", "done"}, LIMA)
    /\ Analyzed(loreto_analysis, {"return", "done"}, LORETO)

\* a center without facilities and a center with facilities around it
C10_Witness ==
    /\ ~lima_analysis.none /\ Len(lima_analysis.department_ccpp) = 2
    /\ lima_analysis.most_isolated[1].hospitals_in_10km = 0
    /\ lima_analysis.most_concentrated[1].hospitals_in_10km = 2
    /\ lima_analysis.most_isolated[1].idx > lima_analysis.most_concentrated[1].idx

Called(stage) == stage \in Range(calls)

\* C11: with both inputs present merge_hospitals_with_shapefile returns a
\* table, an empty one when the join matches no row; None only when an
\* input is absent.
C11_EmptyJoinIsValid ==
    (Called("merge_hospitals_with_shapefile") /\ hospitals.ok /\ maps.ok)
       => dataset_cv.ok

CanonicalColumns ==
    {"CODIGO_IPRESS", "NOMBRE", "UBIGEO", "LONGITUD", "LATITUD",
     "DEPARTAMENTO", "ESTADO"}
PassesFilters(r) ==
    /\ r.Estado = "ACTIVADO" /\ r.Condicion = "EN FUNCIONAMIENTO"
    /\ r.NORTE # NaN /\ r.ESTE # NaN
    /\ -185 <= r.NORTE /\ r.NORTE <= 0 /\ -815 <= r.ESTE /\ r.ESTE <= -680
    /\ r.UBIGEO \in {"1", "2", "3"}
FileParses ==
    /\ IPRESS.exists
    /\ \E e \in Range(encodings_tried) : codec(e) \in IPRESS.parses \ IPRESS.garbles

\* C12: when the facility file parses with all required columns and no row
\* passes the filters, load_and_clean_hospitals returns an empty table with
\* the canonical columns, not None.
C12_EmptyIsNotFailure ==
    (/\ Called("load_and_clean_hospitals") /\ FileParses
     /\ IPRESS.cols = FullColumns
     /\ \A r \in Range(IPRESS.rows) : ~PassesFilters(r))
       => /\ hospitals.ok
          /\ hospitals.rows = <<>>
          /\ hospitals.cols = CanonicalColumns

\* a file of three rows, none of which passes
C12_Witness ==
    /\ Called("load_and_clean_hospitals") /\ Len(IPRESS.rows) = 3
    /\ hospitals.ok /\ hospitals.rows = <<>>
    /\ \E r \in Range(IPRESS.rows) : r.Estado = "ACTIVADO" /\ r.NORTE = NaN

HospitalCodes == {hospitals.rows[i].UBIGEO : i \in 1..Len(hospitals.rows)}
DistrictCodes == {maps.rows[i].UBIGEO : i \in 1..Len(maps.rows)}

\* C13: every joined row pairs a facility and a district that carry its
\* code; a facility whose code is in no district row and a district without
\* facilities give no joined row.
C13_InnerJoinOnCode ==
    dataset_cv.ok =>
       /\ \A j \in 1..Len(dataset_cv.rows) :
             LET row == dataset_cv.rows[j]
             IN /\ row.UBIGEO \in HospitalCodes \cap DistrictCodes
                /\ \E i \in 1..Len(hospitals.rows) :
                      /\ hospitals.rows[i].idx = row.hospitals_idx
                      /\ hospitals.rows[i].UBIGEO = row.UBIGEO
                /\ \E i \in 1..Len(maps.rows) :
                      /\ maps.rows[i].idx = row.maps_idx
                      /\ maps.rows[i].UBIGEO = row.UBIGEO
       /\ \A i \in 1..Len(hospitals.rows) :
             hospitals.rows[i].UBIGEO \notin DistrictCodes =>
                \A j \in 1..Len(dataset_cv.rows) :
                   dataset_cv.rows[j].hospitals_idx # hospitals.rows[i].idx
       /\ \A i \in 1..Len(maps.rows) :
             maps.rows[i].UBIGEO \notin HospitalCodes =>
                \A j \in 1..Len(dataset_cv.rows) :
                   dataset_cv.rows[j].maps_idx # maps.rows[i].idx

\* a facility of an unknown district and a district without facilities are
\* both left out of a non-empty join
C13_Witness ==
    /\ dataset_cv.ok
    /\ HospitalCodes \ DistrictCodes # {}
    /\ DistrictCodes \ HospitalCodes # {}

FullTriple(a) ==
    /\ ~a.none
    /\ Len(a.most_isolated) = 1
    /\ Len(a.most_concentrated) = 1
    /\ Len(a.department_ccpp) > 0

\* C15: each analysis is (None, None, None) or a full triple, and an analysis
\* in which the buffering or the count of some center raised is
\* (None, None, None): no returned per-center table holds a row whose count
\* failed.
C15_FailureIsNone ==
    \A a \in {lima_analysis, loreto_analysis} :
        \/ a = NoneAnalysis
        \/ /\ FullTriple(a)
           /\ \A i \in 1..Len(a.department_ccpp) : a.department_ccpp[i].raises = ""

\* a department whose analysis has centers to work on and nothing to raise
Analysable(department_name) ==
    /\ ccpp.ok
    /\ Cardinality(columns_named(ccpp.cols, NOMBDEP)) = 1
    /\ Matching(department_name) # {}
    /\ \A i \in Matching(department_name) : ccpp.rows[i].raises # "buffer"

ProximityCalls == Len(SelectSeq(calls, LAMBDA s : s = "analyze_proximity"))

\* C16: once the required stages succeed load_all_data returns a bundle
\* whatever the optional stages do; with the centers loaded both analyses
\* run, and each department's entry depends on that department alone: a
\* failed or empty LIMA analysis leaves the LORETO entry a full triple when
\* LORETO can be analysed, and the other way round.
C16_IndependentAnalyses ==
    Returned =>
       /\ ~RequiredFailure => result.ok
       /\ (result.ok /\ ccpp.ok) =>
            /\ ProximityCalls = 2
            /\ Analysable(LIMA) <=> FullTriple(result.lima_analysis)
            /\ Analysable(LORETO) <=> FullTriple(result.loreto_analysis)
            /\ ~Analysable(LIMA) => result.lima_analysis = NoneAnalysis
            /\ ~Analysable(LORETO) => result.loreto_analysis = NoneAnalysis

\* the LIMA analysis found no center and the LORETO one returned its triple
C16_Witness ==
    /\ Returned /\ result.ok /\ ccpp.ok
    /\ result.lima_analysis = NoneAnalysis
    /\ FullTriple(result.loreto_analysis)

\* C17: a returned district table has an integer code in every row, no two
\* rows with the same code, and only valid boundary geometries.
C17_UniqueValidDistricts ==
    maps.ok =>
       /\ \A i \in 1..Len(maps.rows) :
             /\ maps.rows[i].UBIGEO \in Int /\ maps.rows[i].UBIGEO # NaN
             /\ maps.rows[i].geometry.valid
       /\ \A i, j \in 1..Len(maps.rows) :
             maps.rows[i].UBIGEO = maps.rows[j].UBIGEO => i = j

ValidCenters == SelectSeq(CCPP.rows, LAMBDA r : r.valid)

\* C18: a returned population-center table holds only rows with a valid
\* geometry; when a column was mapped to IDCCPP no two of its rows have the
\* same id, and when none was mapped the table holds every valid row of the
\* file.
C18_ValidAndDeduplicated ==
    ccpp.ok =>
       /\ \A i \in 1..Len(ccpp.rows) : ccpp.rows[i].valid
       /\ \A c \in columns_named(ccpp.cols, IDCCPP) :
             \A i, j \in 1..Len(ccpp.rows) :
                ccpp.rows[i].cells[c] = ccpp.rows[j].cells[c] => i = j
       /\ ~has_column(ccpp.cols, IDCCPP) => ccpp.rows = ValidCenters

StageOrder ==
    <<"validate_file_paths", "load_and_clean_hospitals",
      "load_and_process_shapefile", "merge_hospitals_with_shapefile",
      "calculate_hospital_counts", "calculate_department_stats",
      "load_and_process_ccpp", "GeoDataFrame", "analyze_proximity",
      "analyze_proximity">>

\* position in StageOrder of the first required stage that fails on the
\* files of the run, 7 when none does
FirstFailure ==
    IF ~IPRESS.exists \/ ~DISTRITOS.exists THEN 1
    ELSE LET h == load_and_clean_hospitals(IPRESS)
             m == load_and_process_shapefile(DISTRITOS)
             j == merge_hospitals_with_shapefile(h, m)
         IN IF ~h.ok THEN 2
            ELSE IF ~m.ok THEN 3
            ELSE IF ~j.ok THEN 4
            ELSE IF ~calculate_hospital_counts(j, m).ok THEN 5
            ELSE IF ~calculate_department_stats(j).ok THEN 6
            ELSE 7

\* C19: the stages started so far are a prefix of the fixed order; a stage
\* has started only if every required stage before it succeeded; and when a
\* required stage fails the run ends there, with no later stage started.
C19_FixedOrder ==
    /\ Len(calls) <= Len(StageOrder)
    /\ calls = SubSeq(StageOrder, 1, Len(calls))
    /\ Len(calls) >= 2 => IPRESS.exists /\ DISTRITOS.exists
    /\ Len(calls) >= 3 => hospitals.ok
    /\ Len(calls) >= 4 => maps.ok
    /\ Len(calls) >= 5 => dataset_cv.ok
    /\ Len(calls) >= 6 => map_data.ok
    /\ Len(calls) >= 7 => dept_stats.ok
    /\ LET failing == FirstFailure
       IN failing <= 6 =>
             /\ Len(calls) <= failing
             /\ Returned => Len(calls) = failing
             /\ ~ccpp.ok /\ lima_analysis = NoneAnalysis
             /\ loreto_analysis = NoneAnalysis

\* the join failed: three stages ran before it and none after it
C19_Witness ==
    /\ Returned /\ result = NoResult
    /\ hospitals.ok /\ maps.ok /\ ~dataset_cv.ok
    /\ calls = SubSeq(StageOrder, 1, 4)

\* the encoding list of the run and whether read_csv accepts its i-th entry
Charenc == IF IPRESS.detected = "<raises>" THEN "utf-8" ELSE IPRESS.detected
EncodingOrder == <<Charenc, "utf-8", "latin1", "cp1252">>
Decodes(i) ==
    (IF EncodingOrder[i] = "<None>" THEN "utf-8" ELSE EncodingOrder[i])
       \in IPRESS.parses
Faithful(i) ==
    (IF EncodingOrder[i] = "<None>" THEN "utf-8" ELSE EncodingOrder[i])
       \notin IPRESS.garbles

\* C20: the loader hands read_csv the encodings [detected, utf-8, latin1,
\* cp1252] in that order and stops at the first that parses; the table it
\* cleans is that parse, whatever a later encoding would have given; the
\* read fails exactly when no attempt parses; and when the detection raises
\* the list starts with utf-8.
C20_FirstParseWins ==
    Called("load_and_clean_hospitals") =>
       LET n == Len(encodings_tried)
       IN /\ n \in 1..4
          /\ encodings_tried = SubSeq(EncodingOrder, 1, n)
          /\ \A i \in 1..(n - 1) : ~Decodes(i)
          /\ n < 4 => Decodes(n)
          /\ ~Decodes(n) => hospitals = None
          /\ (Decodes(n) /\ Faithful(n) /\ required_columns \subseteq IPRESS.cols)
                => hospitals.ok
          /\ (Decodes(n) /\ ~Faithful(n)) => hospitals = None
          /\ IPRESS.detected = "<raises>" => encodings_tried[1] = "utf-8"

\* the detected codec raises, utf-8 parses and is used, although latin1 would
\* have parsed too, with other header names
C20_Witness ==
    /\ encodings_tried = <<"ascii", "utf-8">>
    /\ hospitals.ok
    /\ "latin1" \in IPRESS.parses \cap IPRESS.garbles

RequiredRaw == {"Estado", "Condicion", "NORTE", "ESTE"}
OtherRaw == {"Codigo Unico", "Nombre del establecimiento", "UBIGEO", "Departamento"}

\* C21: when the file parses, load_and_clean_hospitals returns None if any
\* of the columns Estado, Condicion, NORTE, ESTE is absent, and load_all_data
\* then returns None with no further stage run; with those four present it
\* returns a table whichever of the other columns are absent, and the table
\* has the canonical names of exactly the columns that are present.
C21_RequiredColumns ==
    (Called("load_and_clean_hospitals") /\ FileParses) =>
       /\ ~(RequiredRaw \subseteq IPRESS.cols) =>
             /\ hospitals = None
             /\ Returned /\ result = NoResult
             /\ Len(calls) = 2
       /\ RequiredRaw \subseteq IPRESS.cols =>
             /\ hospitals.ok
             /\ \A c \in OtherRaw :
                   columnas_seleccionar(c) \in hospitals.cols <=> c \in IPRESS.cols

\* a file without the NORTE column
C21_Witness ==
    /\ Called("load_and_clean_hospitals") /\ FileParses
    /\ IPRESS.cols = FullColumns \ {"NORTE"}
    /\ hospitals = None /\ Returned /\ result = NoResult

\* two texts that differ at most in the case of their letters; a missing
\* text equals no name
SameLetter(x, y) ==
    x = y \/ \E i \in 1..Len(LowerCase) : {x, y} = {LowerCase[i], UpperCase[i]}
SameIgnoringCase(t, name) ==
    /\ t # NAText
    /\ Len(t) = Len(name)
    /\ \A i \in 1..Len(t) : SameLetter(t[i], name[i])

\* the centers of the loaded table whose department is the given one
Kept(department_name) ==
    LET dep == CHOOSE c \in columns_named(ccpp.cols, NOMBDEP) : TRUE
    IN SelectSeq(ccpp.rows,
                 LAMBDA r : SameIgnoringCase(r.cells[dep], department_name))

Filtered(a, stage, department_name) ==
    /\ ~a.none =>
          /\ Cardinality(columns_named(ccpp.cols, NOMBDEP)) = 1
          /\ Len(a.department_ccpp) = Len(Kept(department_name))
          /\ \A i \in 1..Len(a.department_ccpp) :
                /\ a.department_ccpp[i].idx = Kept(department_name)[i].idx
                /\ a.department_ccpp[i].cells = Kept(department_name)[i].cells
                /\ a.department_ccpp[i].loc = Kept(department_name)[i].loc
    /\ (/\ pc \in stage /\ ccpp.ok
        /\ Cardinality(columns_named(ccpp.cols, NOMBDEP)) = 1
        /\ Kept(department_name) = <<>>) => a = NoneAnalysis

\* C22: the per-center table of an analysis has one row for each center of
\* the loaded table whose department equals the target name up to letter
\* case, in the order of the table, and no other row; a center with a
\* missing department is never kept; and with no center kept the analysis
\* is (None, None, None).
C22_DepartmentFilter ==
    /\ Filtered(lima_analysis, {"loreto", "return", "done"}, LIMA)
    /\ Filtered(loreto_analysis, {"return", "done"}, LORETO)

\* a center written "Lima" is kept, one without department is not, and the
\* LORETO analysis of the same table has nothing to keep
C22_Witness ==
    /\ pc = "done" /\ ccpp.ok /\ Len(ccpp.rows) = 2
    /\ ~lima_analysis.none /\ Len(lima_analysis.department_ccpp) = 1
    /\ lima_analysis.department_ccpp[1].cells[1] = <<"L", "i", "m", "a">>
    /\ \E i \in 1..2 : ccpp.rows[i].cells[1] = NAText
    /\ loreto_analysis = NoneAnalysis

\* the canonical fields in the order the mapping tries them
CanonicalFields ==
    <<[name |-> NOMBCCPP, keywords |-> KW_NOMBCCPP],
      [name |-> NOMBDEP, keywords |-> KW_NOMBDEP],
      [name |-> NOMBPROV, keywords |-> KW_NOMBPROV],
      [name |-> NOMBDIST, keywords |-> KW_NOMBDIST],
      [name |-> IDCCPP, keywords |-> KW_IDCCPP]>>
FieldsOf(col) ==
    {k \in 1..Len(CanonicalFields) :
        \E kw \in CanonicalFields[k].keywords : Contains(upper(col), kw)}
FirstField(col) ==
    IF FieldsOf(col) = {} THEN col
    ELSE CanonicalFields[CHOOSE k \in FieldsOf(col) :
                            \A m \in FieldsOf(col) : k <= m].name

\* every column of the loaded table has the name of the first canonical
\* field with a keyword in the upper-cased source name, or its source name
\* when no keyword occurs in it
FirstMatch ==
    /\ Len(ccpp.cols) = Len(CCPP.cols)
    /\ \A i \in 1..Len(ccpp.cols) : ccpp.cols[i] = FirstField(CCPP.cols[i])

\* C23: each column of the loaded population-center table carries the first
\* canonical field whose keyword occurs in its upper-cased source name, a
\* column without keyword keeps its name, and no two columns of the table
\* carry the same canonical name.
C23_ColumnMapping ==
    ccpp.ok =>
       /\ FirstMatch
       /\ \A i, j \in 1..Len(ccpp.cols) :
             (/\ ccpp.cols[i] = ccpp.cols[j]
              /\ \E k \in 1..Len(CanonicalFields) :
                    CanonicalFields[k].name = ccpp.cols[i]) => i = j

\* the two tables as load_all_data built them
CentersLoaded == load_and_process_ccpp(CCPP)
FacilityPoints == Table(dataset_cv.cols, points_from_xy(dataset_cv.rows))

====
